---- MODULE Spec2Model ----
(***************************************************************************)
(* Model of AuthService (src/src/modules/auth/auth.service.ts):            *)
(* register / validateUser / login over a user repository, and the         *)
(* private wallet funding routine allocateTokensToWallet.                   *)
(* Every await in the source is a scheduling point: one action per         *)
(* awaited operation together with the synchronous code that follows it.   *)
(***************************************************************************)
EXTENDS Integers, Sequences, FiniteSets, TLC

\* ---------------------------------------------------------------- bounds
MaxProcs == 2      \* concurrent request handlers
MaxCalls == 3      \* total number of service calls started
MaxClock == 1      \* last value of the wall clock (seconds)
MaxInv   == 2      \* invocations of allocateTokensToWallet

Procs == 1..MaxProcs
Invs  == 1..MaxInv

\* ---------------------------------------------------------------- inputs
Emails      == {"a@x.com", "b@x.com"}
Passwords   == {"secret", "other"}   \* passwords offered to validateUser / login
RegPasswords == {"secret"}           \* passwords chosen at registration
FullNames   == {"A"}
NoWallet    == "undefined"
Wallets     == {NoWallet, "0xWallet"}
Salts       == {"s1"}

NULL == [null |-> TRUE]
NeverLoggedIn == -1   \* a last_login_at column that was never written

\* ------------------------------------------------------- program constants
INITIAL_TOKEN_ALLOCATION == 1000
BcryptCost == 10
KeyLength == 66

VARIABLES
  store,       \* Credential Store: sequence of User rows in insertion order
  pc,          \* per handler: position in the running call
  op,          \* per handler: operation being run
  args,        \* per handler: arguments of the running call
  user,        \* per handler: local existingUser / user (result of findOne)
  hashed,      \* per handler: local hashedPassword
  result,      \* per handler: value returned or exception thrown
  writes,      \* per handler: number of repository writes of the running call
  ncalls,      \* calls started so far
  now,         \* wall clock (seconds) at its latest reading
  privateKey,  \* configuration value PRIVATE_KEY
  fpc,         \* per funding invocation: position
  flog,        \* per funding invocation: web3 calls made, in order
  fcause,      \* per funding invocation: error caught (logged server side)
  fresult      \* per funding invocation: outcome seen by the caller

authVars == <<store, pc, op, args, user, hashed, result, writes, ncalls, now>>
fundVars == <<privateKey, fpc, flog, fcause, fresult>>
vars == <<store, pc, op, args, user, hashed, result, writes, ncalls, now,
          privateKey, fpc, flog, fcause, fresult>>

\* ------------------------------------------------------------ pure helpers
Range(s) == {s[i] : i \in DOMAIN s}

\* bcrypt.hash(password, 10): salted one-way hash
BcryptDigest(password, salt, cost) == <<"digest", cost, salt, password>>

BcryptHash(password, salt) ==
  [alg |-> "2b", cost |-> BcryptCost, salt |-> salt,
   digest |-> BcryptDigest(password, salt, BcryptCost)]

\* bcrypt.compare(password, hash): re-hash with the salt and cost in the hash
BcryptCompare(password, h) ==
  h.digest = BcryptDigest(password, h.salt, h.cost)

\* userRepository.findOne({ where: { email } }): the possible results
FindOne(st, email) ==
  IF \E i \in DOMAIN st : st[i].email = email
  THEN {st[i] : i \in {j \in DOMAIN st : st[j].email = email}}
  ELSE {NULL}

HasEmail(st, email) == \E i \in DOMAIN st : st[i].email = email

\* Store-level uniqueness constraint on User.email (user.entity)
EmailUniqueConstraint == FALSE

BadRequestException(msg) == [exception |-> "BadRequestException", message |-> msg]
UnauthorizedException(msg) == [exception |-> "UnauthorizedException", message |-> msg]
QueryFailedError == [exception |-> "QueryFailedError", message |-> "duplicate key"]
IsException(r) == "exception" \in DOMAIN r

\* jsonwebtoken timespan: '1h', '7d' -> seconds
UnitSeconds(u) == CASE u = "s" -> 1 [] u = "m" -> 60 [] u = "h" -> 3600
                    [] u = "d" -> 86400
Timespan(span) == span[1] * UnitSeconds(span[2])

\* jwtService.sign(payload, { expiresIn })
JwtSign(payload, expiresIn, t) ==
  [claims |-> payload, iat |-> t, exp |-> t + Timespan(expiresIn)]

AccessExpiresIn  == <<1, "h">>
RefreshExpiresIn == <<7, "d">>

\* --------------------------------------------------------------- Init
AuthInit ==
  /\ store = <<>>
  /\ pc = [p \in Procs |-> "idle"]
  /\ op = [p \in Procs |-> "none"]
  /\ args = [p \in Procs |-> NULL]
  /\ user = [p \in Procs |-> NULL]
  /\ hashed = [p \in Procs |-> NULL]
  /\ result = [p \in Procs |-> NULL]
  /\ writes = [p \in Procs |-> 0]
  /\ ncalls = 0
  /\ now = 0

\* ------------------------------------------------ configuration: PRIVATE_KEY
Chars(n) == [i \in 1..n |-> "a"]
Absent == [present |-> FALSE, value |-> <<>>]
KeyOf(prefix, n) == [present |-> TRUE, value |-> prefix \o Chars(n)]

PrivateKeys ==
  { Absent,
    [present |-> TRUE, value |-> <<>>],
    KeyOf(<<"0", "x">>, KeyLength - 2),
    KeyOf(<<"0", "x">>, KeyLength - 3),
    KeyOf(<<"0", "x">>, KeyLength - 1),
    KeyOf(<<"a", "b">>, KeyLength - 2),
    KeyOf(<<>>, KeyLength - 2) }

StartsWith(s, prefix) ==
  /\ Len(s) >= Len(prefix)
  /\ SubSeq(s, 1, Len(prefix)) = prefix


\* variant of KeyMalformed: the length of the key is not checked
KeyMalformed_NoLength(k) ==
  \/ ~k.present
  \/ Len(k.value) = 0
  \/ ~(Len(k.value) >= 2 /\ SubSeq(k.value, 1, 2) = <<"0", "x">>)

\* line 122: !privateKey || !privateKey.startsWith('0x') || privateKey.length !== 66
KeyMalformed(k) ==
  \/ ~k.present
  \/ Len(k.value) = 0
  \/ ~StartsWith(k.value, <<"0", "x">>)
  \/ Len(k.value) # KeyLength

FundInit ==
  /\ privateKey \in PrivateKeys
  /\ fpc = [i \in Invs |-> "idle"]
  /\ flog = [i \in Invs |-> <<>>]
  /\ fcause = [i \in Invs |-> "none"]
  /\ fresult = [i \in Invs |-> NULL]

\* Auth service as deployed: a well-formed key is configured and the funding
\* routine is never invoked (its call in register is commented out)
Init ==
  /\ AuthInit
  /\ FundInit
  /\ privateKey = KeyOf(<<"0", "x">>, KeyLength - 2)

\* ------------------------------------------------------------ Auth actions
CanCall(p) == pc[p] \in {"idle", "done"} /\ ncalls < MaxCalls

StartCall(p, o, a, first) ==
  /\ CanCall(p)
  /\ ncalls' = ncalls + 1
  /\ op' = [op EXCEPT ![p] = o]
  /\ args' = [args EXCEPT ![p] = a]
  /\ user' = [user EXCEPT ![p] = NULL]
  /\ hashed' = [hashed EXCEPT ![p] = NULL]
  /\ result' = [result EXCEPT ![p] = NULL]
  /\ writes' = [writes EXCEPT ![p] = 0]
  /\ pc' = [pc EXCEPT ![p] = first]
  /\ UNCHANGED <<store, now>>
  /\ UNCHANGED fundVars

\* register(registerUserDto): destructure the dto and issue findOne
CallRegister(p) ==
  \E e \in Emails, pw \in RegPasswords, fn \in FullNames, w \in Wallets :
    StartCall(p, "register",
              [email |-> e, password |-> pw, full_name |-> fn, wallet_address |-> w],
              "reg_find")

CallValidateUser(p) ==
  \E e \in Emails, pw \in Passwords :
    StartCall(p, "validateUser",
              [email |-> e, password |-> pw, full_name |-> "", wallet_address |-> NoWallet],
              "val_find")

CallLogin(p) ==
  \E e \in Emails, pw \in Passwords :
    StartCall(p, "login",
              [email |-> e, password |-> pw, full_name |-> "", wallet_address |-> NoWallet],
              "val_find")


\* variant of RegFind: the result of the existence check is ignored
RegFind_NoCheck(p) ==
  /\ pc[p] = "reg_find"
  /\ \E u \in FindOne(store, args[p].email) :
       user' = [user EXCEPT ![p] = u]
  /\ pc' = [pc EXCEPT ![p] = "reg_hash"]
  /\ UNCHANGED <<store, op, args, hashed, result, writes, ncalls, now>>
  /\ UNCHANGED fundVars

\* register: findOne resolves; throw if a row was found, else start hashing
RegFind(p) ==
  /\ pc[p] = "reg_find"
  /\ \E u \in FindOne(store, args[p].email) :
       /\ user' = [user EXCEPT ![p] = u]
       /\ IF u # NULL
          THEN /\ result' = [result EXCEPT ![p] =
                               BadRequestException("Email is already registered")]
               /\ pc' = [pc EXCEPT ![p] = "done"]
          ELSE /\ pc' = [pc EXCEPT ![p] = "reg_hash"]
               /\ UNCHANGED result
  /\ UNCHANGED <<store, op, args, hashed, writes, ncalls, now>>
  /\ UNCHANGED fundVars

\* register: bcrypt.hash resolves
RegHash(p) ==
  /\ pc[p] = "reg_hash"
  /\ \E s \in Salts :
       hashed' = [hashed EXCEPT ![p] = BcryptHash(args[p].password, s)]
  /\ pc' = [pc EXCEPT ![p] = "reg_save"]
  /\ UNCHANGED <<store, op, args, user, result, writes, ncalls, now>>
  /\ UNCHANGED fundVars


\* variant of NewUser: the allocation is granted only with a wallet address
NewUser_WalletOnly(p, id) ==
  [id |-> id,
   email |-> args[p].email,
   full_name |-> args[p].full_name,
   password |-> hashed[p],
   wallet_address |-> args[p].wallet_address,
   token_balance |-> IF args[p].wallet_address = NoWallet
                     THEN 0 ELSE INITIAL_TOKEN_ALLOCATION,
   last_login_at |-> NeverLoggedIn]

\* userRepository.create({...}) followed by the row the store assigns on save
NewUser(p, id) ==
  [id |-> id,
   email |-> args[p].email,
   full_name |-> args[p].full_name,
   password |-> hashed[p],
   wallet_address |-> args[p].wallet_address,
   token_balance |-> INITIAL_TOKEN_ALLOCATION,
   last_login_at |-> NeverLoggedIn]


\* variant of RegSave: the existence check is repeated together with the write
RegSave_Recheck(p) ==
  /\ pc[p] = "reg_save"
  /\ IF HasEmail(store, args[p].email)
     THEN /\ result' = [result EXCEPT ![p] =
                          BadRequestException("Email is already registered")]
          /\ UNCHANGED <<store, writes>>
     ELSE LET row == [id |-> Len(store) + 1,
                      email |-> args[p].email,
                      full_name |-> args[p].full_name,
                      password |-> hashed[p],
                      wallet_address |-> args[p].wallet_address,
                      token_balance |-> INITIAL_TOKEN_ALLOCATION,
                      last_login_at |-> NeverLoggedIn] IN
          /\ store' = Append(store, row)
          /\ writes' = [writes EXCEPT ![p] = @ + 1]
          /\ result' = [result EXCEPT ![p] = row]
  /\ pc' = [pc EXCEPT ![p] = "done"]
  /\ UNCHANGED <<op, args, user, hashed, ncalls, now>>
  /\ UNCHANGED fundVars

\* register: create + save resolves; returns the saved row
RegSave(p) ==
  /\ pc[p] = "reg_save"
  /\ IF EmailUniqueConstraint /\ HasEmail(store, args[p].email)
     THEN /\ result' = [result EXCEPT ![p] = QueryFailedError]
          /\ UNCHANGED <<store, writes>>
     ELSE LET row == NewUser(p, Len(store) + 1) IN
          /\ store' = Append(store, row)
          /\ writes' = [writes EXCEPT ![p] = @ + 1]
          /\ result' = [result EXCEPT ![p] = row]
  /\ pc' = [pc EXCEPT ![p] = "done"]
  /\ UNCHANGED <<op, args, user, hashed, ncalls, now>>
  /\ UNCHANGED fundVars

\* where validateUser's return value goes: to the caller, or back into login
ValReturn(p) == IF op[p] = "login" THEN "login_ret" ELSE "done"

\* validateUser: findOne resolves
ValFind(p) ==
  /\ pc[p] = "val_find"
  /\ \E u \in FindOne(store, args[p].email) :
       /\ user' = [user EXCEPT ![p] = u]
       /\ IF u = NULL
          THEN /\ result' = [result EXCEPT ![p] = NULL]
               /\ pc' = [pc EXCEPT ![p] = ValReturn(p)]
          ELSE /\ pc' = [pc EXCEPT ![p] = "val_compare"]
               /\ UNCHANGED result
  /\ UNCHANGED <<store, op, args, hashed, writes, ncalls, now>>
  /\ UNCHANGED fundVars


\* variant of ValCompare: the outcome of the comparison is ignored
ValCompare_Always(p) ==
  /\ pc[p] = "val_compare"
  /\ result' = [result EXCEPT ![p] = user[p]]
  /\ pc' = [pc EXCEPT ![p] = IF op[p] = "login" THEN "login_ret" ELSE "done"]
  /\ UNCHANGED <<store, op, args, user, hashed, writes, ncalls, now>>
  /\ UNCHANGED fundVars

\* validateUser: bcrypt.compare resolves
ValCompare(p) ==
  /\ pc[p] = "val_compare"
  /\ result' = [result EXCEPT ![p] =
                  IF BcryptCompare(args[p].password, user[p].password)
                  THEN user[p] ELSE NULL]
  /\ pc' = [pc EXCEPT ![p] = ValReturn(p)]
  /\ UNCHANGED <<store, op, args, user, hashed, writes, ncalls, now>>
  /\ UNCHANGED fundVars


\* variant of LoginResponse: the refresh token gets the access token's lifetime
LoginResponse_SameLifetime(u, t1, t2) ==
  LET payload == [email |-> u.email, sub |-> u.id] IN
  [status |-> "success",
   message |-> "Login successful",
   data |-> [user |-> [id |-> u.id, full_name |-> u.full_name, email |-> u.email,
                       token_balance |-> u.token_balance, last_login_at |-> t2],
             access_token |-> JwtSign(payload, AccessExpiresIn, t1),
             refresh_token |-> JwtSign(payload, AccessExpiresIn, t2)]]

\* login response for a validated user u; the clock reads t1 <= t2
LoginResponse(u, t1, t2) ==
  LET payload == [email |-> u.email, sub |-> u.id] IN
  [status |-> "success",
   message |-> "Login successful",
   data |-> [user |-> [id |-> u.id, full_name |-> u.full_name, email |-> u.email,
                       token_balance |-> u.token_balance, last_login_at |-> t2],
             access_token |-> JwtSign(payload, AccessExpiresIn, t1),
             refresh_token |-> JwtSign(payload, RefreshExpiresIn, t2)]]


\* variant of LoginFinish: an unknown email is reported as a validation error
LoginFinish_Distinct(p) ==
  /\ pc[p] = "login_ret"
  /\ IF result[p] = NULL
     THEN /\ result' = [result EXCEPT ![p] =
                          IF user[p] = NULL
                          THEN BadRequestException("Email is not registered")
                          ELSE UnauthorizedException("Invalid credentials")]
          /\ UNCHANGED now
     ELSE \E t \in now..MaxClock, d \in {0, 1} :
          /\ t + d <= MaxClock
          /\ now' = t + d
          /\ result' = [result EXCEPT ![p] =
                          [status |-> "success",
                           message |-> "Login successful",
                           data |-> [user |-> [id |-> result[p].id,
                                               full_name |-> result[p].full_name,
                                               email |-> result[p].email,
                                               token_balance |-> result[p].token_balance,
                                               last_login_at |-> t + d],
                                     access_token |->
                                       JwtSign([email |-> result[p].email, sub |-> result[p].id],
                                               AccessExpiresIn, t),
                                     refresh_token |->
                                       JwtSign([email |-> result[p].email, sub |-> result[p].id],
                                               RefreshExpiresIn, t + d)]]]
  /\ pc' = [pc EXCEPT ![p] = "done"]
  /\ UNCHANGED <<store, op, args, user, hashed, writes, ncalls>>
  /\ UNCHANGED fundVars

\* variant of LoginFinish: the login time is written back to the user's row
LoginFinish_WriteBack(p) ==
  /\ pc[p] = "login_ret"
  /\ IF result[p] = NULL
     THEN /\ result' = [result EXCEPT ![p] = UnauthorizedException("Invalid credentials")]
          /\ UNCHANGED <<now, store>>
     ELSE \E t \in now..MaxClock, d \in {0, 1} :
          /\ t + d <= MaxClock
          /\ now' = t + d
          /\ store' = [i \in DOMAIN store |->
                         IF store[i].id = result[p].id
                         THEN [store[i] EXCEPT !.last_login_at = t + d]
                         ELSE store[i]]
          /\ result' = [result EXCEPT ![p] =
                          [status |-> "success",
                           message |-> "Login successful",
                           data |-> [user |-> [id |-> result[p].id,
                                               full_name |-> result[p].full_name,
                                               email |-> result[p].email,
                                               token_balance |-> result[p].token_balance,
                                               last_login_at |-> t + d],
                                     access_token |->
                                       JwtSign([email |-> result[p].email, sub |-> result[p].id],
                                               AccessExpiresIn, t),
                                     refresh_token |->
                                       JwtSign([email |-> result[p].email, sub |-> result[p].id],
                                               RefreshExpiresIn, t + d)]]]
  /\ pc' = [pc EXCEPT ![p] = "done"]
  /\ UNCHANGED <<op, args, user, hashed, writes, ncalls>>
  /\ UNCHANGED fundVars

\* login: validateUser has returned; throw or sign both tokens and respond.
\* The clock is read at t for the first sign call and at t + d afterwards.
LoginFinish(p) ==
  /\ pc[p] = "login_ret"
  /\ IF result[p] = NULL
     THEN /\ result' = [result EXCEPT ![p] = UnauthorizedException("Invalid credentials")]
          /\ UNCHANGED now
     ELSE \E t \in now..MaxClock, d \in {0, 1} :
          /\ t + d <= MaxClock
          /\ now' = t + d
          /\ result' = [result EXCEPT ![p] = LoginResponse(result[p], t, t + d)]
  /\ pc' = [pc EXCEPT ![p] = "done"]
  /\ UNCHANGED <<store, op, args, user, hashed, writes, ncalls>>
  /\ UNCHANGED fundVars

Next ==
  \/ \E p \in Procs : CallRegister(p)
  \/ \E p \in Procs : CallValidateUser(p)
  \/ \E p \in Procs : CallLogin(p)
  \/ \E p \in Procs : RegFind(p)
  \/ \E p \in Procs : RegHash(p)
  \/ \E p \in Procs : RegSave(p)
  \/ \E p \in Procs : ValFind(p)
  \/ \E p \in Procs : ValCompare(p)
  \/ \E p \in Procs : LoginFinish(p)

Spec == Init /\ [][Next]_vars

\* ------------------------------------------------- allocateTokensToWallet
isEIP1559 == TRUE
GenericFailure == BadRequestException("Failed to allocate tokens to the wallet")
FundWallets == {"0xWallet", "not-an-address"}
ValidAddress(w) == w = "0xWallet"

\* web3.eth.accounts.privateKeyToAccount(privateKey): whether it throws on a
\* key depends on the web3 release; a well-formed hex key is accepted
AccountRejects(k) == IF KeyMalformed(k) THEN {TRUE, FALSE} ELSE {FALSE}


\* variant of Catch: the caught error is passed on to the caller
Catch_Rethrow(i, cause) ==
  /\ fcause' = [fcause EXCEPT ![i] = cause]
  /\ fresult' = [fresult EXCEPT ![i] = [exception |-> "Error", message |-> cause]]
  /\ fpc' = [fpc EXCEPT ![i] = "done"]

\* catch (error) { console.error(...); throw new BadRequestException(...) }
Catch(i, cause) ==
  /\ fcause' = [fcause EXCEPT ![i] = cause]
  /\ fresult' = [fresult EXCEPT ![i] = GenericFailure]
  /\ fpc' = [fpc EXCEPT ![i] = "done"]

\* lines 115-153: the synchronous prefix up to the estimateGas request
FundStart(i) ==
  /\ fpc[i] = "idle"
  /\ \E w \in FundWallets, rej \in AccountRejects(privateKey) :
       IF rej
       THEN Catch(i, "privateKeyToAccount") /\ UNCHANGED flog
       ELSE IF KeyMalformed(privateKey)
       THEN Catch(i, "Invalid private key format") /\ UNCHANGED flog
       ELSE IF ~ValidAddress(w)
       THEN Catch(i, "encodeABI") /\ UNCHANGED flog
       ELSE /\ flog' = [flog EXCEPT ![i] = Append(@, "estimateGas")]
            /\ fpc' = [fpc EXCEPT ![i] = "estimate"]
            /\ UNCHANGED <<fcause, fresult>>
  /\ UNCHANGED privateKey
  /\ UNCHANGED authVars

\* lines 149-184: estimateGas settles; build tx and request the signature
FundEstimate(i) ==
  /\ fpc[i] = "estimate"
  /\ \E ok \in BOOLEAN :
       IF ~ok
       THEN Catch(i, "estimateGas") /\ UNCHANGED flog
       ELSE IF isEIP1559
       THEN /\ flog' = [flog EXCEPT ![i] = Append(@, "signTransaction")]
            /\ fpc' = [fpc EXCEPT ![i] = "sign"]
            /\ UNCHANGED <<fcause, fresult>>
       ELSE \E gp \in BOOLEAN :
            IF ~gp
            THEN /\ Catch(i, "getGasPrice")
                 /\ flog' = [flog EXCEPT ![i] = Append(@, "getGasPrice")]
            ELSE /\ flog' = [flog EXCEPT ![i] =
                               Append(Append(@, "getGasPrice"), "signTransaction")]
                 /\ fpc' = [fpc EXCEPT ![i] = "sign"]
                 /\ UNCHANGED <<fcause, fresult>>
  /\ UNCHANGED privateKey
  /\ UNCHANGED authVars

\* lines 184-187: signTransaction settles; broadcast the raw transaction
FundSign(i) ==
  /\ fpc[i] = "sign"
  /\ \E ok \in BOOLEAN :
       IF ~ok
       THEN Catch(i, "signTransaction") /\ UNCHANGED flog
       ELSE /\ flog' = [flog EXCEPT ![i] = Append(@, "sendSignedTransaction")]
            /\ fpc' = [fpc EXCEPT ![i] = "send"]
            /\ UNCHANGED <<fcause, fresult>>
  /\ UNCHANGED privateKey
  /\ UNCHANGED authVars

\* lines 187-190: sendSignedTransaction settles; log the receipt and return
FundSend(i) ==
  /\ fpc[i] = "send"
  /\ \E ok \in BOOLEAN :
       IF ~ok
       THEN Catch(i, "sendSignedTransaction")
       ELSE /\ fresult' = [fresult EXCEPT ![i] = [returned |-> "undefined"]]
            /\ fpc' = [fpc EXCEPT ![i] = "done"]
            /\ UNCHANGED fcause
  /\ UNCHANGED <<privateKey, flog>>
  /\ UNCHANGED authVars

FundNext ==
  \/ \E i \in Invs : FundStart(i)
  \/ \E i \in Invs : FundEstimate(i)
  \/ \E i \in Invs : FundSign(i)
  \/ \E i \in Invs : FundSend(i)

\* the funding routine invoked under any configured key
FundSpecInit == AuthInit /\ FundInit
FundSpec == FundSpecInit /\ [][FundNext]_vars

\* ===================================================================
\* Properties
\* ===================================================================
Stepped(p) == pc'[p] # pc[p]
RegisterOk(p) == op[p] = "register" /\ pc[p] = "done" /\ ~IsException(result[p])
LoginOk(p) == op[p] = "login" /\ pc[p] = "done" /\ ~IsException(result[p])

\* C1: a register call whose existence check runs when the store already
\* holds a row for its email (an earlier register for it has saved) ends
\* with BadRequestException 'Email is already registered' and leaves the
\* store as it was.
C1_DuplicateRejected ==
  [][\A p \in Procs :
       (pc[p] = "reg_find" /\ Stepped(p) /\ HasEmail(store, args[p].email))
         => /\ pc'[p] = "done"
            /\ result'[p] = [exception |-> "BadRequestException",
                             message |-> "Email is already registered"]
            /\ writes'[p] = 0
            /\ store' = store]_vars

C1_Witness ==
  \E p \in Procs, i \in DOMAIN store :
    /\ op[p] = "register" /\ pc[p] = "done"
    /\ IsException(result[p])
    /\ result[p].message = "Email is already registered"
    /\ store[i].email = args[p].email
    /\ Len(store) = 1

\* C2: no two rows of the store have the same email.
C2_EmailUnique ==
  \A i, j \in DOMAIN store : i # j => store[i].email # store[j].email

\* C3: validateUser returns null when the lookup finds no row for the email
\* or when the password does not match the hash of the row found, returns
\* the stored row found when it matches, and never changes the store.
C3_ValidateUser ==
  [][\A p \in Procs :
       /\ (pc[p] = "val_find" /\ Stepped(p))
            => /\ store' = store
               /\ ~HasEmail(store, args[p].email)
                    => result'[p] = NULL /\ pc'[p] \notin {"val_find", "val_compare"}
               /\ HasEmail(store, args[p].email)
                    => /\ user'[p] \in Range(store)
                       /\ user'[p].email = args[p].email
                       /\ pc'[p] = "val_compare"
       /\ (pc[p] = "val_compare" /\ Stepped(p))
            => /\ store' = store
               /\ user[p] \in Range(store)
               /\ pc'[p] \notin {"val_find", "val_compare"}
               /\ user[p].password.digest
                    = <<"digest", user[p].password.cost, user[p].password.salt,
                        args[p].password>>
                    => result'[p] = user[p]
               /\ user[p].password.digest
                    # <<"digest", user[p].password.cost, user[p].password.salt,
                        args[p].password>>
                    => result'[p] = NULL]_vars

C3_Witness ==
  \E p, q \in Procs :
    /\ p # q
    /\ op[p] = "validateUser" /\ pc[p] = "done"
    /\ op[q] = "validateUser" /\ pc[q] = "done"
    /\ result[p] # NULL /\ result[p] \in Range(store)
    /\ result[q] = NULL /\ user[q] # NULL

\* C4: a login whose lookup found no row, or whose password does not match
\* the row found, ends with UnauthorizedException 'Invalid credentials' in
\* both cases alike, and its result carries no token.
C4_LoginRejected ==
  \A p \in Procs :
    (/\ op[p] = "login" /\ pc[p] = "done"
     /\ IF user[p] = NULL THEN TRUE
        ELSE ~BcryptCompare(args[p].password, user[p].password))
      => /\ result[p] = [exception |-> "UnauthorizedException",
                         message |-> "Invalid credentials"]
         /\ "data" \notin DOMAIN result[p]

C4_Witness ==
  \E p, q \in Procs :
    /\ p # q
    /\ op[p] = "login" /\ pc[p] = "done" /\ user[p] = NULL
    /\ op[q] = "login" /\ pc[q] = "done" /\ user[q] # NULL
    /\ IsException(result[p]) /\ IsException(result[q])
    /\ result[p] = result[q]

\* C5: a successful login returns an access and a refresh token over the
\* same claims (email and id of the validated row); the access token expires
\* 1 hour and the refresh token 7 days after its issue, and the refresh
\* token expires strictly later.
C5_TokenPair ==
  \A p \in Procs :
    LoginOk(p) =>
      LET a == result[p].data.access_token
          r == result[p].data.refresh_token
      IN /\ a.claims = [email |-> user[p].email, sub |-> user[p].id]
         /\ r.claims = a.claims
         /\ a.claims.email = args[p].email
         /\ a.exp = a.iat + 3600
         /\ r.exp = r.iat + 7 * 24 * 3600
         /\ r.iat >= a.iat
         /\ r.exp > a.exp

C5_Witness ==
  \E p \in Procs :
    /\ LoginOk(p)
    /\ result[p].data.refresh_token.iat > result[p].data.access_token.iat

\* C7: a successful register has written exactly one row, the row it
\* returns, with token_balance 1000 whether or not a wallet address was
\* given; every row of the store has token_balance 1000.
C7_InitialBalance ==
  /\ \A i \in DOMAIN store : store[i].token_balance = 1000
  /\ \A p \in Procs :
       RegisterOk(p) => /\ writes[p] = 1
                        /\ result[p] \in Range(store)
                        /\ result[p].token_balance = 1000
                        /\ result[p].wallet_address = args[p].wallet_address
  /\ \A p \in Procs : ~RegisterOk(p) => writes[p] = 0

C7_Witness ==
  \E p, q \in Procs :
    /\ RegisterOk(p) /\ RegisterOk(q)
    /\ result[p].wallet_address = NoWallet
    /\ result[q].wallet_address # NoWallet

\* C8: nothing orders one register call's existence check and write against
\* another's: a check that finds no row lets the call go on whatever the
\* other calls are doing, and a call that passed the check writes its row
\* even when a row for the same email has been saved in between.
C8_CheckThenWrite ==
  [][\A p \in Procs :
       /\ (pc[p] = "reg_find" /\ Stepped(p) /\ ~HasEmail(store, args[p].email))
            => pc'[p] = "reg_hash"
       /\ (pc[p] = "reg_save" /\ Stepped(p))
            => /\ Len(store') = Len(store) + 1
               /\ store'[Len(store')].email = args[p].email
               /\ SubSeq(store', 1, Len(store)) = store
               /\ ~IsException(result'[p])]_vars

C8_Witness ==
  \E p, q \in Procs :
    /\ p # q
    /\ RegisterOk(p) /\ RegisterOk(q)
    /\ args[p].email = args[q].email
    /\ result[p] # result[q]
    /\ result[p] \in Range(store) /\ result[q] \in Range(store)

\* C10: no step of a login call changes the store (rows, fields, persisted
\* last-login value), and the last_login_at of a successful response is the
\* clock at response time, not the stored value.
C10_LoginReadOnly ==
  [][\A p \in Procs :
       (op'[p] = "login" /\ Stepped(p))
         => /\ store' = store
            /\ writes'[p] = 0
            /\ (pc'[p] = "done" /\ ~IsException(result'[p]))
                 => /\ result'[p].data.user.last_login_at = now'
                    /\ \A i \in DOMAIN store' :
                         store'[i].id = result'[p].data.user.id
                           => store'[i].last_login_at = NeverLoggedIn]_vars

C10_Witness ==
  \E p \in Procs, i \in DOMAIN store :
    /\ LoginOk(p)
    /\ store[i].id = result[p].data.user.id
    /\ store[i].last_login_at # result[p].data.user.last_login_at

\* ------------------------------------------------ funding routine properties
WellFormedKey(k) ==
  /\ k.present
  /\ Len(k.value) = 66
  /\ k.value[1] = "0" /\ k.value[2] = "x"

FullLog == <<"estimateGas", "signTransaction", "sendSignedTransaction">>
IsPrefix(s, t) == Len(s) <= Len(t) /\ s = SubSeq(t, 1, Len(s))

\* C6: with an absent, wrongly prefixed or wrongly sized private key an
\* invocation ends at once in a failure caused by the key, having made no
\* web3 network call.
C6_KeyCheckedFirst ==
  \A i \in Invs :
    (~WellFormedKey(privateKey) /\ fpc[i] # "idle")
      => /\ fpc[i] = "done"
         /\ IsException(fresult[i])
         /\ fcause[i] \in {"Invalid private key format", "privateKeyToAccount"}
         /\ flog[i] = <<>>

C6_Witness ==
  \E i \in Invs :
    /\ ~WellFormedKey(privateKey)
    /\ Len(privateKey.value) = 66
    /\ fpc[i] = "done"
    /\ fcause[i] = "Invalid private key format"

\* C9: an invocation runs key validation, gas estimation, signing and
\* broadcast in that order; a failed step ends it with the one generic error
\* and nothing runs afterwards, so at most one broadcast is made and only
\* after estimation and signing succeeded.
C9_StateOrder ==
  \A i \in Invs :
    /\ IsPrefix(flog[i], FullLog)
    /\ flog[i] # <<>> => WellFormedKey(privateKey)
    /\ fcause[i] # "none"
         => /\ fpc[i] = "done"
            /\ fresult[i] = [exception |-> "BadRequestException",
                             message |-> "Failed to allocate tokens to the wallet"]
    /\ fcause[i] = "estimateGas" => Len(flog[i]) = 1
    /\ fcause[i] = "signTransaction" => Len(flog[i]) = 2
    /\ fpc[i] = "sign" => Len(flog[i]) = 2
    /\ fpc[i] = "send" => Len(flog[i]) = 3
    /\ (fpc[i] = "done" /\ fcause[i] = "none") => flog[i] = FullLog

C9_LinearNoRetry ==
  /\ []C9_StateOrder
  /\ [][\A i \in Invs :
          fpc[i] = "done"
            => /\ fpc'[i] = "done"
               /\ flog'[i] = flog[i]
               /\ fresult'[i] = fresult[i]
               /\ fcause'[i] = fcause[i]]_vars

C9_Witness ==
  \E i, j \in Invs :
    /\ fpc[i] = "done" /\ fcause[i] = "none" /\ flog[i] = FullLog
    /\ fpc[j] = "done" /\ fcause[j] = "signTransaction"
    /\ fresult[j].message = "Failed to allocate tokens to the wallet"
====
